---- MODULE Spec2Model ----
(***************************************************************************)
(* A model of Lab_1/configure_nodes.py (the remote session protocol driver, *)
(* the session orchestrator, the address map, the shortest-path resolver   *)
(* and the static route synthesizer) and of generate_topology.py.          *)
(*                                                                         *)
(* Four specifications share the module:                                   *)
(*   SpecDriver  one channel, one frame-level operation applied to the     *)
(*               bytes the peer delivers on it;                            *)
(*   Spec        one run of main();                                        *)
(*   SpecRoute   setup_static_routing on an addressed topology;            *)
(*   SpecGraph   dijkstra on the routing graph of a list of links.         *)
(***************************************************************************)
EXTENDS Integers, Sequences, FiniteSets, TLC

\* ------------------------------------------------------------------ bounds
\* Frames the peer delivers on the channel of SpecDriver.
MaxFrames == 3
\* Payload bytes of one frame.
MaxLen == 2

\* --------------------------------------------------------- byte-level frames
\* class Stream(IntFlag)
STDOUT == 1
STDERR == 2
Streams == {STDOUT, STDERR}

\* struct '>BxxxL': one byte stream id, three padding bytes, four bytes length.
HEADER_SIZE == 8

\* The payload bytes the shell emits (an ASCII letter).
PayloadBytes == {72}

RECURSIVE SeqsUpTo(_, _)
SeqsUpTo(S, n) ==
    IF n = 0 THEN {<<>>}
    ELSE LET shorter == SeqsUpTo(S, n - 1)
         IN  shorter \cup {Append(s, x) : s \in {t \in shorter : Len(t) = n - 1}, x \in S}

\* One frame as the peer emits it: the stream it belongs to and its payload.
FrameSet == [stream : Streams, data : SeqsUpTo(PayloadBytes, MaxLen)]

\* The 4-byte big-endian encoding of a length.
BigEndian4(n) ==
    << (n \div 16777216) % 256, (n \div 65536) % 256, (n \div 256) % 256, n % 256 >>

FrameHeader(f) == <<f.stream, 0, 0, 0>> \o BigEndian4(Len(f.data))

FrameBytes(f) == FrameHeader(f) \o f.data

RECURSIVE FramesBytes(_)
FramesBytes(fs) ==
    IF fs = <<>> THEN <<>> ELSE FrameBytes(Head(fs)) \o FramesBytes(Tail(fs))

Drop(s, n) == SubSeq(s, n + 1, Len(s))

\* docker.utils.socket.read_exactly(socket, n): returns once n bytes have been
\* received; it polls without a timeout, so with fewer than n bytes ever
\* delivered it never returns (ok = FALSE).
read_exactly(stream, n) ==
    IF Len(stream) >= n
    THEN [ok |-> TRUE, data |-> SubSeq(stream, 1, n), rest |-> Drop(stream, n)]
    ELSE [ok |-> FALSE, data |-> <<>>, rest |-> stream]

\* docker.utils.socket.next_frame_header(socket): read_exactly(socket, 8) and
\* struct.unpack('>BxxxL', data).
next_frame_header(stream) ==
    LET r == read_exactly(stream, HEADER_SIZE)
        d == r.data
    IN  [ok |-> r.ok,
         stream |-> IF r.ok THEN d[1] ELSE 0,
         next_size |-> IF r.ok
                       THEN d[5] * 16777216 + d[6] * 65536 + d[7] * 256 + d[8]
                       ELSE 0,
         rest |-> r.rest]

\* select([process], [], [], READ_TIMEOUT_SEC) == 1: the channel holds a byte.
Readable(stream) == stream # <<>>

\* lambda stream: stream == <wanted>
Predicate(wanted, stream) == stream = wanted

\* dropwhile_frame without the read_exactly of a matching frame's payload.
RECURSIVE dropwhile_frame_noread(_, _)
dropwhile_frame_noread(stream, wanted) ==
    IF ~Readable(stream)
    THEN [status |-> "returned", ret |-> 0, rest |-> stream]
    ELSE LET h == next_frame_header(stream)
         IN  IF ~h.ok
             THEN [status |-> "blocked", ret |-> 0, rest |-> stream]
             ELSE IF ~Predicate(wanted, h.stream)
             THEN [status |-> "returned", ret |-> h.next_size, rest |-> h.rest]
             ELSE dropwhile_frame_noread(h.rest, wanted)

\* dropwhile_frame(process, predicate) on the bytes `stream` that reach the
\* channel: what it returns and what it leaves unread; status "blocked" when a
\* read inside it waits for bytes that never come.
RECURSIVE dropwhile_frame(_, _)
dropwhile_frame(stream, wanted) ==
    IF ~Readable(stream)
    THEN [status |-> "returned", ret |-> 0, rest |-> stream]
    ELSE LET h == next_frame_header(stream)
         IN  IF ~h.ok
             THEN [status |-> "blocked", ret |-> 0, rest |-> stream]
             ELSE IF ~Predicate(wanted, h.stream)
             THEN [status |-> "returned", ret |-> h.next_size, rest |-> h.rest]
             ELSE LET p == read_exactly(h.rest, h.next_size)
                  IN  IF ~p.ok
                      THEN [status |-> "blocked", ret |-> 0, rest |-> h.rest]
                      ELSE dropwhile_frame(p.rest, wanted)

\* One resumption of the generator takewhile_frame(process, predicate):
\* "yield" with the next payload length, or "stop" (why: the select timed
\* out, or the frame read did not match), or "blocked" in the header read.
takewhile_frame(stream, wanted) ==
    IF ~Readable(stream)
    THEN [kind |-> "stop", why |-> "drained", next_size |-> 0, rest |-> stream]
    ELSE LET h == next_frame_header(stream)
         IN  IF ~h.ok
             THEN [kind |-> "blocked", why |-> "header", next_size |-> 0, rest |-> stream]
             ELSE IF ~Predicate(wanted, h.stream)
             THEN [kind |-> "stop", why |-> "break", next_size |-> h.next_size,
                   rest |-> h.rest]
             ELSE [kind |-> "yield", why |-> "match", next_size |-> h.next_size,
                   rest |-> h.rest]

\* The loop of show_command_output over takewhile_frame: each yielded length
\* is read with read_exactly before the generator is resumed.  `yielded` is the
\* sequence of lengths the generator has produced so far.
RECURSIVE show_output_loop(_, _, _)
show_output_loop(stream, wanted, yielded) ==
    LET g == takewhile_frame(stream, wanted)
    IN  IF g.kind = "yield"
        THEN LET p == read_exactly(g.rest, g.next_size)
             IN  IF ~p.ok
                 THEN [status |-> "blocked", why |-> "payload", rest |-> g.rest,
                       yielded |-> Append(yielded, g.next_size)]
                 ELSE show_output_loop(p.rest, wanted, Append(yielded, g.next_size))
        ELSE [status |-> IF g.kind = "blocked" THEN "blocked" ELSE "returned",
              why |-> g.why, rest |-> g.rest, yielded |-> yielded]

\* ------------------------------------------------- topology (generate_topology.py)
\* A node name "R<i>" or "PC<i>" is <<"R", i>> or <<"PC", i>>; an adapter name
\* "eth<k>" is <<"eth", k>> and "lo" is <<"lo", 0>>.
Router(i) == <<"R", i>>
Device(i) == <<"PC", i>>
Eth(k) == <<"eth", k>>
Lo == <<"lo", 0>>

\* re.match(r"^PC\d+$", node) and re.match(r"^R(\d+)$", node).group(1)
IsPC(node) == node[1] = "PC"
IsRouter(node) == node[1] = "R"
NodeId(node) == node[2]

Range(s) == {s[i] : i \in DOMAIN s}

RECURSIVE SeqMax(_)
SeqMax(s) ==
    IF Len(s) = 1 THEN s[1]
    ELSE LET m == SeqMax(Tail(s)) IN IF s[1] >= m THEN s[1] ELSE m

\* create_nodes(subnets): the node names, in insertion order.
create_nodes(subnets) ==
    [i \in 1 .. 2 * subnets |->
        IF i <= subnets THEN Router(i - 1) ELSE Device(i - 1 - subnets)]

Endpoint(node, adapter) == [node |-> node, adapter |-> adapter]

\* One iteration of either loop of create_links: the link from `node` to
\* `peer`, each side on the adapter after the highest one it has used.
AddLink(st, node, peer) ==
    LET node_adapter == SeqMax(st.link_data[node]) + 1
        peer_adapter == SeqMax(st.link_data[peer]) + 1
        ld1 == [st.link_data EXCEPT ![node] = Append(@, node_adapter)]
        ld2 == [ld1 EXCEPT ![peer] = Append(@, peer_adapter)]
    IN  [link_data |-> ld2,
         links |-> Append(st.links, <<Endpoint(node, Eth(node_adapter)),
                                      Endpoint(peer, Eth(peer_adapter))>>)]

RECURSIVE RouterLinks(_, _, _)
RouterLinks(st, i, subnets) ==
    IF i = subnets THEN st
    ELSE RouterLinks(AddLink(st, Router(i), Router((i + 1) % subnets)), i + 1, subnets)

RECURSIVE DeviceLinks(_, _, _)
DeviceLinks(st, i, subnets) ==
    IF i = subnets THEN st
    ELSE DeviceLinks(AddLink(st, Device(i), Router(i % subnets)), i + 1, subnets)

\* create_links(subnets): the list topology["links"], each link its two
\* endpoints.
create_links(subnets) ==
    LET st0 == [link_data |-> [n \in Range(create_nodes(subnets)) |-> <<0>>],
                links |-> <<>>]
    IN  DeviceLinks(RouterLinks(st0, 0, subnets), 0, subnets).links

\* yield_links(config): each link as the pair (fst, snd) of its endpoints.
yield_links(topology) == topology

\* The nodes a topology's links name, in order of first appearance.
RECURSIVE LinkNodes(_, _)
LinkNodes(topology, acc) ==
    IF topology = <<>> THEN acc
    ELSE LET fst == Head(topology)[1].node
             snd == Head(topology)[2].node
             a1 == IF fst \in Range(acc) THEN acc ELSE Append(acc, fst)
             a2 == IF snd \in Range(a1) THEN a1 ELSE Append(a1, snd)
         IN  LinkNodes(Tail(topology), a2)

\* ------------------------------------------------------------ address map
\* ipaddress.IPv4Interface("a.b.c.d/p"): .ip is <<a, b, c, d>>, .network is
\* the address with its host bits cleared and the prefix length.
Network(ip, prefixlen) ==
    IF prefixlen = 32 THEN <<ip[1], ip[2], ip[3], ip[4], 32>>
    ELSE <<ip[1], ip[2], ip[3], 0, 24>>

NoNet == <<0, 0, 0, 0, 0>>
NoIp == <<0, 0, 0, 0>>
NoAdapter == <<"", 0>>

\* One inner dict of NETWORK_MAP is the sequence of its items in insertion
\* order.  d[subnet] = (ip, adapter): a new key is appended, an existing key
\* keeps its place.
Keys(d) == {d[i].subnet : i \in DOMAIN d}

DictSet(d, subnet, ip, adapter) ==
    LET item == [subnet |-> subnet, ip |-> ip, adapter |-> adapter]
    IN  IF subnet \in Keys(d)
        THEN [i \in DOMAIN d |-> IF d[i].subnet = subnet THEN item ELSE d[i]]
        ELSE Append(d, item)

DictGet(d, subnet) == (CHOOSE i \in DOMAIN d : d[i].subnet = subnet)

\* ------------------------------------------------------------- commands
Cmd(kind, adapter, net, gw) == [kind |-> kind, adapter |-> adapter, net |-> net, gw |-> gw]
CmdConf == Cmd("conf", NoAdapter, NoNet, NoIp)
CmdInt(adapter) == Cmd("int", adapter, NoNet, NoIp)
\* ["ip", "addr", iface.with_prefixlen]
CmdIpAddr(ip, prefixlen) == Cmd("ip addr", NoAdapter, <<ip[1], ip[2], ip[3], ip[4], prefixlen>>, NoIp)
CmdDoWr == Cmd("do wr", NoAdapter, NoNet, NoIp)
CmdExit == Cmd("exit", NoAdapter, NoNet, NoIp)
CmdShIntBrief == Cmd("do sh int brief", NoAdapter, NoNet, NoIp)
CmdShIpRoute == Cmd("sh ip route", NoAdapter, NoNet, NoIp)
\* ["ip", "route", format(target_subnet), format(his_address), our_adapter]
CmdIpRoute(subnet, gw, adapter) == Cmd("ip route", adapter, subnet, gw)

To(node, cmd) == [node |-> node, cmd |-> cmd]

\* A send_command that writes its command line before it looks at the select.
send_command_write_first(log, node, cmd, writable) ==
    [raised |-> ~writable, log |-> [log EXCEPT ![node] = Append(@, cmd)]]

\* send_command(process, cmd): TimeoutError, with nothing written, when the
\* select finds the channel not writable; else the command line is written.
send_command(log, node, cmd, writable) ==
    IF ~writable
    THEN [raised |-> TRUE, log |-> log]
    ELSE [raised |-> FALSE, log |-> [log EXCEPT ![node] = Append(@, cmd)]]

\* The send_command calls of one loop iteration, in order; the first k of them
\* find their channel writable.
RECURSIVE send_commands(_, _, _)
send_commands(log, cmds, k) ==
    IF cmds = <<>> THEN [raised |-> FALSE, log |-> log]
    ELSE LET r == send_command(log, Head(cmds).node, Head(cmds).cmd, k > 0)
         IN  IF r.raised THEN r ELSE send_commands(r.log, Tail(cmds), k - 1)

\* ---------------------------------------------------------- routing graph
\* RouteLink(node, adapter)
RouteLink(node, adapter) == [node |-> node, adapter |-> adapter]

\* A defaultdict(list) in insertion order: its keys, and the list of each key.
EmptyGraph == [keys |-> <<>>, adj |-> <<>>]

\* routing_graph[node].append(link)
GraphAppend(g, node, link) ==
    IF node \in Range(g.keys)
    THEN [g EXCEPT !.adj[node] = Append(@, link)]
    ELSE [keys |-> Append(g.keys, node), adj |-> g.adj @@ (node :> <<link>>)]

RECURSIVE GraphLinks(_, _)
GraphLinks(g, topology) ==
    IF topology = <<>> THEN g
    ELSE LET fst == Head(topology)[1]
             snd == Head(topology)[2]
             g1 == GraphAppend(g, fst.node, RouteLink(snd.node, fst.adapter))
             g2 == GraphAppend(g1, snd.node, RouteLink(fst.node, snd.adapter))
         IN  GraphLinks(g2, Tail(topology))

\* Every node gets RouteLink(node, "lo"), the PCs too.
SelfEdgesAll(g) ==
    [g EXCEPT !.adj = [node \in DOMAIN g.adj |-> Append(g.adj[node], RouteLink(node, Lo))]]

\* The second loop of build_routing_graph: every node that is not a PC gets
\* RouteLink(node, "lo").
SelfEdges(g) ==
    [g EXCEPT !.adj = [node \in DOMAIN g.adj |->
                          IF IsPC(node) THEN g.adj[node]
                          ELSE Append(g.adj[node], RouteLink(node, Lo))]]

build_routing_graph(topology) == SelfEdges(GraphLinks(EmptyGraph, yield_links(topology)))

\* ------------------------------------------------------------- dijkstra
\* float("inf")
inf == 1000000
\* None, as a predecessor
None == <<"None", 0>>

\* min(vertices, key=lambda v: distances[v]): the first vertex of least distance.
ArgMin(vertices, distances) ==
    LET i == CHOOSE i \in DOMAIN vertices :
                 /\ \A j \in DOMAIN vertices : distances[vertices[i]] <= distances[vertices[j]]
                 /\ \A j \in 1 .. i - 1 : distances[vertices[j]] > distances[vertices[i]]
    IN  vertices[i]

\* vertices.remove(curr_vertex)
Remove(vertices, v) ==
    LET i == CHOOSE i \in DOMAIN vertices :
                 vertices[i] = v /\ \A j \in 1 .. i - 1 : vertices[j] # v
    IN  SubSeq(vertices, 1, i - 1) \o SubSeq(vertices, i + 1, Len(vertices))

\* for connection in graph[curr_vertex]: relax the edge to the neighbour.
RECURSIVE Relax(_, _, _)
Relax(connections, curr_vertex, st) ==
    IF connections = <<>> THEN st
    ELSE LET neighbour == Head(connections).node
             alt_route == st.distances[curr_vertex] + 1
             curr_distance == st.distances[neighbour]
             st1 == IF alt_route < curr_distance
                    THEN [distances |-> [st.distances EXCEPT ![neighbour] = alt_route],
                          prev_vertices |-> [st.prev_vertices EXCEPT ![neighbour] = curr_vertex]]
                    ELSE st
         IN  Relax(Tail(connections), curr_vertex, st1)

\* while vertices: ...
RECURSIVE DijkstraLoop(_, _, _)
DijkstraLoop(graph, vertices, st) ==
    IF vertices = <<>> THEN st
    ELSE LET curr_vertex == ArgMin(vertices, st.distances)
         IN  IF st.distances[curr_vertex] = inf THEN st
             ELSE DijkstraLoop(graph, Remove(vertices, curr_vertex),
                               Relax(graph.adj[curr_vertex], curr_vertex, st))

\* A walk back along prev_vertices that leaves the source out of the path.
RECURSIVE PathBackNoSource(_, _, _)
PathBackNoSource(prev_vertices, curr_vertex, path) ==
    IF prev_vertices[curr_vertex] = None THEN path
    ELSE PathBackNoSource(prev_vertices, prev_vertices[curr_vertex], <<curr_vertex>> \o path)

\* while prev_vertices[curr_vertex] is not None: path.insert(0, curr_vertex) ...
RECURSIVE PathBack(_, _, _)
PathBack(prev_vertices, curr_vertex, path) ==
    IF prev_vertices[curr_vertex] = None
    THEN IF path # <<>> THEN <<curr_vertex>> \o path ELSE path
    ELSE PathBack(prev_vertices, prev_vertices[curr_vertex], <<curr_vertex>> \o path)

dijkstra(graph, source, dest) ==
    LET V == Range(graph.keys)
        st0 == [distances |-> [v \in V |-> IF v = source THEN 0 ELSE inf],
                prev_vertices |-> [v \in V |-> None]]
        st == DijkstraLoop(graph, graph.keys, st0)
    IN  PathBack(st.prev_vertices, dest, <<>>)

\* ------------------------------------------------------ route synthesis
Reverse(s) == [i \in DOMAIN s |-> s[Len(s) + 1 - i]]

\* A loop that sends a route to every node, attached to the target or not.
RECURSIVE RouteWalkNoSkip(_, _, _, _, _)
RouteWalkNoSkip(nodes, knows_target_subnet, target_subnet, nm, acc) ==
    IF nodes = <<>> THEN [error |-> "none", emits |-> acc]
    ELSE LET node == Head(nodes)
             coverage_intersection == Keys(nm[node]) \cap Keys(nm[knows_target_subnet])
         IN  IF nm[node] = <<>> THEN [error |-> "KeyError", emits |-> acc]
             ELSE IF coverage_intersection = {}
             THEN [error |-> "AssertionError", emits |-> acc]
             ELSE RouteWalkNoSkip(Tail(nodes), node, target_subnet, nm,
                                  Append(acc, [node |-> node,
                                               gateway |-> knows_target_subnet,
                                               shared |-> coverage_intersection]))

\* The loop of setup_static_routing over reversed(path) without its first
\* element: the nodes that get a route, each with the node it takes as gateway
\* (knows_target_subnet) and the subnets the two share (coverage_intersection).
\* It ends with KeyError at a node NETWORK_MAP has no entry for and with
\* AssertionError at an empty intersection.
RECURSIVE RouteWalk(_, _, _, _, _)
RouteWalk(nodes, knows_target_subnet, target_subnet, nm, acc) ==
    IF nodes = <<>> THEN [error |-> "none", emits |-> acc]
    ELSE LET node == Head(nodes)
         IN  IF nm[node] = <<>> THEN [error |-> "KeyError", emits |-> acc]
             ELSE IF target_subnet \in Keys(nm[node])
             THEN RouteWalk(Tail(nodes), node, target_subnet, nm, acc)
             ELSE LET coverage_intersection ==
                          Keys(nm[node]) \cap Keys(nm[knows_target_subnet])
                  IN  IF coverage_intersection = {}
                      THEN [error |-> "AssertionError", emits |-> acc]
                      ELSE RouteWalk(Tail(nodes), node, target_subnet, nm,
                                     Append(acc, [node |-> node,
                                                  gateway |-> knows_target_subnet,
                                                  shared |-> coverage_intersection]))

\* The last key of NETWORK_MAP[path[-1]] instead of the first.
TargetSubnetLast(nm, path) == nm[path[Len(path)]][Len(nm[path[Len(path)]])].subnet

\* next(iter(NETWORK_MAP[path[-1]]))
TargetSubnet(nm, path) == nm[path[Len(path)]][1].subnet

\* A route whose gateway is the node's own address on the shared subnet.
RouteCommandOwnAddress(nm, target_subnet, e, where_is_he) ==
    LET our == nm[e.node][DictGet(nm[e.node], where_is_he)]
    IN  To(e.node, CmdIpRoute(target_subnet, our.ip, our.adapter))

\* The send_command of one emitting node, where_is_he being the shared subnet
\* that the iteration of coverage_intersection yields first.
RouteCommand(nm, target_subnet, e, where_is_he) ==
    LET his_address == nm[e.gateway][DictGet(nm[e.gateway], where_is_he)].ip
        our_adapter == nm[e.node][DictGet(nm[e.node], where_is_he)].adapter
    IN  To(e.node, CmdIpRoute(target_subnet, his_address, our_adapter))

\* ---------------------------------------------------- addressing phases
\* setup_router_loopbacks, one router: lo_iface = 10.10.10.<id + 1>/32
LoopbackIp(node) == <<10, 10, 10, NodeId(node) + 1>>

LoopbackCmds(node) ==
    << To(node, CmdInt(Lo)), To(node, CmdIpAddr(LoopbackIp(node), 32)) >>

LoopbackBind(nm, node) ==
    [nm EXCEPT ![node] = DictSet(@, Network(LoopbackIp(node), 32), LoopbackIp(node), Lo)]

\* Router addresses that do not depend on subnet_counter.
RouterIpOneSubnet(node, subnet_counter) == <<192, 168, 1, NodeId(node) + 1>>

\* setup_router_subnets, one link between two routers:
\* 192.168.<subnet_counter>.<id + 1>/24 on either side
RouterIp(node, subnet_counter) == <<192, 168, subnet_counter, NodeId(node) + 1>>

IsRouterLink(link) == ~(IsPC(link[1].node) \/ IsPC(link[2].node))

RouterSubnetCmds(link, subnet_counter) ==
    << To(link[1].node, CmdInt(link[1].adapter)),
       To(link[1].node, CmdIpAddr(RouterIp(link[1].node, subnet_counter), 24)),
       To(link[2].node, CmdInt(link[2].adapter)),
       To(link[2].node, CmdIpAddr(RouterIp(link[2].node, subnet_counter), 24)) >>

RouterSubnetBind(nm, link, subnet_counter) ==
    LET fst_ip == RouterIp(link[1].node, subnet_counter)
        snd_ip == RouterIp(link[2].node, subnet_counter)
        nm1 == [nm EXCEPT ![link[1].node] =
                   DictSet(@, Network(fst_ip, 24), fst_ip, link[1].adapter)]
    IN  [nm1 EXCEPT ![link[2].node] =
            DictSet(@, Network(snd_ip, 24), snd_ip, link[2].adapter)]

\* setup_pc_links, one link: which endpoint is the PC and which the router
\* (the second endpoint overrides the first); None when either is missing.
NoEndpoint == Endpoint(None, NoAdapter)

PcEnd(link) ==
    IF IsPC(link[2].node) THEN link[2]
    ELSE IF IsPC(link[1].node) THEN link[1] ELSE NoEndpoint

RouterEnd(link) ==
    IF IsRouter(link[2].node) THEN link[2]
    ELSE IF IsRouter(link[1].node) THEN link[1] ELSE NoEndpoint

IsPcLink(link) == PcEnd(link) # NoEndpoint /\ RouterEnd(link) # NoEndpoint

\* 172.25.<router id + 1>.<router id + 2>/24 on the PC, .<router id + 1> on
\* the router
PcIp(router_node) == <<172, 25, NodeId(router_node) + 1, NodeId(router_node) + 2>>
PcRouterIp(router_node) == <<172, 25, NodeId(router_node) + 1, NodeId(router_node) + 1>>

PcLinkCmds(link) ==
    LET pc == PcEnd(link)
        router == RouterEnd(link)
    IN  << To(router.node, CmdInt(router.adapter)),
           To(router.node, CmdIpAddr(PcRouterIp(router.node), 24)),
           To(pc.node, CmdInt(pc.adapter)),
           To(pc.node, CmdIpAddr(PcIp(router.node), 24)) >>

PcLinkBind(nm, link) ==
    LET pc == PcEnd(link)
        router == RouterEnd(link)
        nm1 == [nm EXCEPT ![pc.node] =
                   DictSet(@, Network(PcIp(router.node), 24), PcIp(router.node), pc.adapter)]
    IN  [nm1 EXCEPT ![router.node] =
            DictSet(@, Network(PcRouterIp(router.node), 24), PcRouterIp(router.node),
                    router.adapter)]

\* A commit that leaves two levels of the configuration.
CommitCmdsExitTwice(node) == << To(node, CmdDoWr), To(node, CmdExit), To(node, CmdExit) >>

\* commit_configs, one session
CommitCmds(node) == << To(node, CmdDoWr), To(node, CmdExit) >>

\* NETWORK_MAP after the three addressing phases have run to their end.
RECURSIVE BindLoopbacks(_, _)
BindLoopbacks(nm, procs) ==
    IF procs = <<>> THEN nm
    ELSE BindLoopbacks(IF IsPC(Head(procs)) THEN nm ELSE LoopbackBind(nm, Head(procs)),
                       Tail(procs))

RECURSIVE BindRouterSubnets(_, _, _)
BindRouterSubnets(nm, topology, subnet_counter) ==
    IF topology = <<>> THEN nm
    ELSE IF IsRouterLink(Head(topology))
    THEN BindRouterSubnets(RouterSubnetBind(nm, Head(topology), subnet_counter),
                           Tail(topology), subnet_counter + 1)
    ELSE BindRouterSubnets(nm, Tail(topology), subnet_counter)

RECURSIVE BindPcLinks(_, _)
BindPcLinks(nm, topology) ==
    IF topology = <<>> THEN nm
    ELSE BindPcLinks(IF IsPcLink(Head(topology)) THEN PcLinkBind(nm, Head(topology)) ELSE nm,
                     Tail(topology))

Addressed(nm, topology, procs) ==
    BindPcLinks(BindRouterSubnets(BindLoopbacks(nm, procs), yield_links(topology), 1),
                yield_links(topology))

\* ------------------------------------------------------- session channels
\* The socket object behind one session: the number of SocketIO objects that
\* refer to it, whether close() has been called on it, and how many times the
\* channel itself has been released (socket._real_close).
NoSocket == [opened |-> FALSE, io_refs |-> 0, closed |-> FALSE, released |-> 0]

\* container.exec_run(cmd, stdin=True, socket=True): a SocketIO over the socket
OpenSocket == [opened |-> TRUE, io_refs |-> 1, closed |-> FALSE, released |-> 0]

\* socket.close()
SocketClose(s) ==
    LET s1 == [s EXCEPT !.closed = TRUE]
    IN  IF s1.io_refs <= 0 THEN [s1 EXCEPT !.released = @ + 1] ELSE s1

\* SocketIO.close(): drops its reference; a socket already closed is released
SocketIOClose(s) ==
    LET s1 == [s EXCEPT !.io_refs = IF @ > 0 THEN @ - 1 ELSE @]
    IN  IF s1.closed THEN SocketClose(s1) ELSE s1

\* Leaving spawn_process with only closing(socketio): the socket keeps open.
SpawnProcessExitOuterOnly(s) == SocketIOClose(s)

\* Leaving "with closing(socketio), closing(socket := socketio._sock)": the
\* inner closing first, then the outer one.
SpawnProcessExit(s) == SocketIOClose(SocketClose(s))

\* ExitStack.__exit__: every entered context is left, last entered first.
RECURSIVE ExitStackExit(_, _)
ExitStackExit(socks, entered) ==
    IF entered = <<>> THEN socks
    ELSE LET last == entered[Len(entered)]
         IN  ExitStackExit([socks EXCEPT ![last] = SpawnProcessExit(@)],
                           SubSeq(entered, 1, Len(entered) - 1))

\* ------------------------------------------------------------------- state
VARIABLES
    \* SpecDriver: the frames the peer emits, the bytes of them that it
    \* delivers before it stops sending, the operation, its predicate's
    \* stream, the driver's position and the operation's result.
    dframes, dstream, dop, dwanted, dpc, dres,
    \* argv.topology (its links) and client.containers.list()
    topology, containers,
    \* main's position: the statement of its body, the iteration of that
    \* statement's loop, the position inside the iteration
    stmt, idx, sub,
    \* "running", "raised" (an exception is propagating), "ended" (main has
    \* returned or the exception has left it), "hung" (a read never returns)
    status, error,
    \* the ExitStack's entered contexts, the sockets, the dict vtysh_processes
    stack, sock, vtysh_processes,
    \* per session: the command lines written to it, and the bytes delivered
    \* on it and not read yet
    sent, chan,
    \* the calls of send_command so far
    attempts,
    NETWORK_MAP, subnet_counter, routing_graph,
    \* the shared subnet that iterating a coverage_intersection yielded first,
    \* per (node, gateway)
    iter_first,
    \* setup_static_routing has begun; it has read NETWORK_MAP
    synth_started, nm_read,
    \* the ordered pair handled last: its path and the commands sent for it
    pair,
    \* the frames the shell of the session opened last emitted at its startup
    banner

dvars == <<dframes, dstream, dop, dwanted, dpc, dres>>

mvars == <<topology, containers, stmt, idx, sub, status, error, stack, sock,
           vtysh_processes, sent, chan, attempts, NETWORK_MAP, subnet_counter,
           routing_graph, iter_first, synth_started, nm_read, pair, banner>>

vars == <<dvars, mvars>>

NoPair == [from |-> None, to |-> None, path |-> <<>>, emitted |-> <<>>, done |-> FALSE]

\* The nodes of a run: those the topology names and the running containers.
Universe == Range(LinkNodes(topology, <<>>)) \cup Range(containers)

\* No frame-level operation is under way (Spec, SpecRoute, SpecGraph).
DriverIdle ==
    /\ dframes = <<>> /\ dstream = <<>> /\ dop = "none" /\ dwanted = STDOUT
    /\ dpc = "idle" /\ dres = [status |-> "none", why |-> "none", ret |-> 0,
                               rest |-> <<>>, yielded |-> <<>>]

\* No run of main is under way (SpecDriver).
MainIdle ==
    /\ topology = <<>> /\ containers = <<>>
    /\ stmt = 0 /\ idx = 0 /\ sub = 0 /\ status = "idle" /\ error = "none"
    /\ stack = <<>> /\ sock = <<>> /\ vtysh_processes = <<>>
    /\ sent = <<>> /\ chan = <<>> /\ attempts = 0
    /\ NETWORK_MAP = <<>> /\ subnet_counter = 0 /\ routing_graph = EmptyGraph
    /\ iter_first = {} /\ synth_started = FALSE /\ nm_read = FALSE
    /\ pair = NoPair /\ banner = <<>>

\* ----------------------------------------------------------- SpecDriver
NoResult == [status |-> "none", why |-> "none", ret |-> 0, rest |-> <<>>, yielded |-> <<>>]

\* The peer emits whole frames and may stop sending anywhere inside the last
\* one (cut bytes of it are never delivered).
InitDriver ==
    /\ dframes \in SeqsUpTo(FrameSet, MaxFrames)
    /\ \E cut \in 0 .. (HEADER_SIZE + MaxLen) :
          /\ dframes = <<>> => cut = 0
          /\ dframes # <<>> => cut < Len(FrameBytes(dframes[Len(dframes)]))
          /\ dstream = SubSeq(FramesBytes(dframes), 1, Len(FramesBytes(dframes)) - cut)
    /\ dop \in {"dropwhile", "takewhile"}
    /\ dwanted \in Streams
    /\ dpc = "start"
    /\ dres = NoResult
    /\ MainIdle

\* stdout_size = dropwhile_frame(proc, predicate)
DriverDrop ==
    /\ dpc = "start"
    /\ dop = "dropwhile"
    /\ LET r == dropwhile_frame(dstream, dwanted)
       IN  /\ dres' = [NoResult EXCEPT !.status = r.status, !.ret = r.ret, !.rest = r.rest]
           /\ dpc' = IF r.status = "blocked" THEN "blocked" ELSE "returned"
    /\ UNCHANGED <<dframes, dstream, dop, dwanted, mvars>>

\* read_exactly(proc, stdout_size), the caller's read of the returned length
DriverReadPayload ==
    /\ dpc = "returned"
    /\ dop = "dropwhile"
    /\ dres.ret > 0
    /\ LET p == read_exactly(dres.rest, dres.ret)
       IN  /\ dres' = [dres EXCEPT !.status = IF p.ok THEN "read" ELSE "blocked",
                                   !.rest = IF p.ok THEN p.rest ELSE dres.rest]
           /\ dpc' = IF p.ok THEN "done" ELSE "blocked"
    /\ UNCHANGED <<dframes, dstream, dop, dwanted, mvars>>

\* for stdout_size in takewhile_frame(proc, predicate): read_exactly(proc, stdout_size)
DriverTake ==
    /\ dpc = "start"
    /\ dop = "takewhile"
    /\ LET r == show_output_loop(dstream, dwanted, <<>>)
       IN  /\ dres' = [NoResult EXCEPT !.status = r.status, !.why = r.why,
                                       !.rest = r.rest, !.yielded = r.yielded]
           /\ dpc' = IF r.status = "blocked" THEN "blocked" ELSE "done"
    /\ UNCHANGED <<dframes, dstream, dop, dwanted, mvars>>

NextDriver == DriverDrop \/ DriverReadPayload \/ DriverTake

SpecDriver == InitDriver /\ [][NextDriver]_vars

\* ------------------------------------------------------------------ main
\* Routers (and as many PCs) of the topology of a run of main.
MaxRunSubnets == 2
\* Frames that reach a session's channel while one frame-level operation runs.
MaxArrive == 1
\* Payload bytes of such a frame.
MaxRunLen == 1
\* Frames of a shell's startup banner.
MaxBanner == 2

\* A main that synthesizes the routes before it addresses the PC links.
MainBodyRoutingEarly ==
    << [call |-> "create_vtysh_processes", enter_config |-> TRUE, cmd |-> CmdConf],
       [call |-> "setup_router_loopbacks", enter_config |-> FALSE, cmd |-> CmdConf],
       [call |-> "setup_router_subnets", enter_config |-> FALSE, cmd |-> CmdConf],
       [call |-> "setup_static_routing", enter_config |-> FALSE, cmd |-> CmdConf],
       [call |-> "setup_pc_links", enter_config |-> FALSE, cmd |-> CmdConf],
       [call |-> "commit_configs", enter_config |-> FALSE, cmd |-> CmdConf],
       [call |-> "show_command_output", enter_config |-> FALSE, cmd |-> CmdShIntBrief],
       [call |-> "commit_configs", enter_config |-> FALSE, cmd |-> CmdConf],
       [call |-> "show_command_output", enter_config |-> FALSE, cmd |-> CmdShIpRoute] >>

\* The body of main's with-block, statement by statement.
MainBody ==
    << [call |-> "create_vtysh_processes", enter_config |-> TRUE, cmd |-> CmdConf],
       [call |-> "setup_router_loopbacks", enter_config |-> FALSE, cmd |-> CmdConf],
       [call |-> "setup_router_subnets", enter_config |-> FALSE, cmd |-> CmdConf],
       [call |-> "setup_pc_links", enter_config |-> FALSE, cmd |-> CmdConf],
       [call |-> "commit_configs", enter_config |-> FALSE, cmd |-> CmdConf],
       [call |-> "show_command_output", enter_config |-> FALSE, cmd |-> CmdShIntBrief],
       [call |-> "setup_static_routing", enter_config |-> FALSE, cmd |-> CmdConf],
       [call |-> "commit_configs", enter_config |-> FALSE, cmd |-> CmdConf],
       [call |-> "show_command_output", enter_config |-> FALSE, cmd |-> CmdShIpRoute] >>

Call == IF stmt \in DOMAIN MainBody THEN MainBody[stmt].call ELSE "return"

Running == status = "running"

\* The frames that arrive while an operation runs.  An operation reads into
\* the last of them: a frame it would leave whole arrives, as far as the
\* session can tell, during its next operation.
RunFrames == [stream : Streams, data : SeqsUpTo(PayloadBytes, MaxRunLen)]

Arrivals == SeqsUpTo(RunFrames, MaxArrive)

\* The frames a shell emits at its startup, before it is sent anything.
BannerArrivals == SeqsUpTo(RunFrames, MaxBanner)

Consumed(arriving, rest) ==
    IF arriving = <<>> THEN TRUE
    ELSE Len(rest) < Len(FrameBytes(arriving[Len(arriving)]))

\* A failed `assert path` is swallowed: setup_static_routing goes on with the
\* next pair.
FailSkipsUnreachable(e) ==
    IF e = "AssertionError" /\ Call = "setup_static_routing"
    THEN /\ UNCHANGED <<status, error, sub>>
         /\ IF idx + 1 < Len(routing_graph.keys) * Len(routing_graph.keys)
            THEN stmt' = stmt /\ idx' = idx + 1
            ELSE stmt' = stmt + 1 /\ idx' = 0
    ELSE status' = "raised" /\ error' = e /\ UNCHANGED <<stmt, idx, sub>>

\* An exception leaves the statement; a read never returns; the iteration is
\* over and the loop of `len` iterations goes on or the statement is done.
Fail(e) == status' = "raised" /\ error' = e /\ UNCHANGED <<stmt, idx, sub>>

Hang == status' = "hung" /\ UNCHANGED <<error, stmt, idx, sub>>

Continue(len) ==
    /\ UNCHANGED <<status, error>>
    /\ sub' = 0
    /\ IF idx + 1 < len
       THEN stmt' = stmt /\ idx' = idx + 1
       ELSE stmt' = stmt + 1 /\ idx' = 0

\* The send_command calls of one iteration, then its writes to NETWORK_MAP.
SendThen(cmds, nm_after, len) ==
    \E k \in 0 .. Len(cmds) :
        LET r == send_commands(sent, cmds, k)
        IN  /\ sent' = r.log
            /\ attempts' = attempts + (IF k < Len(cmds) THEN k + 1 ELSE k)
            /\ IF r.raised
               THEN Fail("TimeoutError") /\ UNCHANGED NETWORK_MAP
               ELSE NETWORK_MAP' = nm_after /\ Continue(len)

\* No assertion on the length dropwhile_frame returned.
BannerAssertionOff(stdout_size) == TRUE

\* assert stdout_size > 0
BannerAssertion(stdout_size) == stdout_size > 0

\* create_vtysh_processes, one container: the context is entered, the banner
\* is dropped up to the first STDOUT frame, which is read, and "conf" is sent.
CreateVtyshProcess ==
    /\ Running /\ Call = "create_vtysh_processes"
    /\ LET container == containers[idx + 1]
       IN  \E arriving \in BannerArrivals, writable \in BOOLEAN :
               LET d == dropwhile_frame(chan[container] \o FramesBytes(arriving), STDERR)
                   p == read_exactly(d.rest, d.ret)
                   hung == d.status = "blocked" \/ (d.ret > 0 /\ ~p.ok)
                   asserted == ~hung /\ ~BannerAssertion(d.ret)
                   left == IF hung \/ asserted THEN d.rest ELSE p.rest
                   s == IF MainBody[stmt].enter_config
                        THEN send_command(sent, container, CmdConf, writable)
                        ELSE [raised |-> FALSE, log |-> sent]
               IN  /\ Consumed(arriving, left)
                   /\ banner' = arriving
                   /\ stack' = Append(stack, container)
                   /\ sock' = [sock EXCEPT ![container] = OpenSocket]
                   /\ chan' = [chan EXCEPT ![container] = left]
                   /\ IF hung
                      THEN Hang /\ UNCHANGED <<sent, attempts, vtysh_processes>>
                      ELSE IF asserted
                      THEN Fail("AssertionError") /\ UNCHANGED <<sent, attempts, vtysh_processes>>
                      ELSE /\ sent' = s.log
                           /\ attempts' = attempts + (IF MainBody[stmt].enter_config THEN 1 ELSE 0)
                           /\ IF s.raised
                              THEN Fail("TimeoutError") /\ UNCHANGED vtysh_processes
                              ELSE /\ vtysh_processes' = Append(vtysh_processes, container)
                                   /\ Continue(Len(containers))
    /\ UNCHANGED <<dvars, topology, containers, NETWORK_MAP, subnet_counter,
                   routing_graph, iter_first, synth_started, nm_read, pair>>

\* setup_router_loopbacks, one session
SetupRouterLoopback ==
    /\ Running /\ Call = "setup_router_loopbacks"
    /\ LET node == vtysh_processes[idx + 1]
       IN  IF IsPC(node)
           THEN SendThen(<<>>, NETWORK_MAP, Len(vtysh_processes))
           ELSE SendThen(LoopbackCmds(node), LoopbackBind(NETWORK_MAP, node),
                         Len(vtysh_processes))
    /\ UNCHANGED <<dvars, topology, containers, banner, stack, sock, vtysh_processes, chan,
                   subnet_counter, routing_graph, iter_first, synth_started, nm_read, pair>>

\* setup_router_subnets, one link
SetupRouterSubnet ==
    /\ Running /\ Call = "setup_router_subnets"
    /\ LET link == yield_links(topology)[idx + 1]
           counter == IF idx = 0 THEN 1 ELSE subnet_counter
       IN  IF ~IsRouterLink(link)
           THEN /\ SendThen(<<>>, NETWORK_MAP, Len(topology))
                /\ subnet_counter' = counter
           ELSE IF ~(counter < 256)
           THEN /\ Fail("AssertionError")
                /\ subnet_counter' = counter
                /\ UNCHANGED <<sent, attempts, NETWORK_MAP>>
           ELSE /\ SendThen(RouterSubnetCmds(link, counter),
                            RouterSubnetBind(NETWORK_MAP, link, counter), Len(topology))
                /\ subnet_counter' = IF status' = "running" THEN counter + 1 ELSE counter
    /\ UNCHANGED <<dvars, topology, containers, banner, stack, sock, vtysh_processes, chan,
                   routing_graph, iter_first, synth_started, nm_read, pair>>

\* setup_pc_links, one link
SetupPcLink ==
    /\ Running /\ Call = "setup_pc_links"
    /\ LET link == yield_links(topology)[idx + 1]
       IN  IF ~IsPcLink(link)
           THEN SendThen(<<>>, NETWORK_MAP, Len(topology))
           ELSE SendThen(PcLinkCmds(link), PcLinkBind(NETWORK_MAP, link), Len(topology))
    /\ UNCHANGED <<dvars, topology, containers, banner, stack, sock, vtysh_processes, chan,
                   subnet_counter, routing_graph, iter_first, synth_started, nm_read, pair>>

\* commit_configs, one session
CommitConfig ==
    /\ Running /\ Call = "commit_configs"
    /\ SendThen(CommitCmds(vtysh_processes[idx + 1]), NETWORK_MAP, Len(vtysh_processes))
    /\ UNCHANGED <<dvars, topology, containers, banner, stack, sock, vtysh_processes, chan,
                   subnet_counter, routing_graph, iter_first, synth_started, nm_read, pair>>

\* show_command_output, one session, up to the command: pending STDOUT frames
\* are dropped, the channel must have drained, and the command is sent.
ShowSend ==
    /\ Running /\ Call = "show_command_output" /\ sub = 0
    /\ LET node == vtysh_processes[idx + 1]
       IN  \E arriving \in Arrivals, writable \in BOOLEAN :
               LET d == dropwhile_frame(chan[node] \o FramesBytes(arriving), STDOUT)
                   s == send_command(sent, node, MainBody[stmt].cmd, writable)
               IN  /\ Consumed(arriving, d.rest)
                   /\ chan' = [chan EXCEPT ![node] = d.rest]
                   /\ IF d.status = "blocked"
                      THEN Hang /\ UNCHANGED <<sent, attempts>>
                      ELSE IF d.ret # 0
                      THEN Fail("AssertionError") /\ UNCHANGED <<sent, attempts>>
                      ELSE /\ sent' = s.log
                           /\ attempts' = attempts + 1
                           /\ IF s.raised
                              THEN Fail("TimeoutError")
                              ELSE /\ sub' = 1
                                   /\ UNCHANGED <<status, error, stmt, idx>>
    /\ UNCHANGED <<dvars, topology, containers, banner, stack, sock, vtysh_processes,
                   NETWORK_MAP, subnet_counter, routing_graph, iter_first,
                   synth_started, nm_read, pair>>

\* show_command_output, the same session, the loop over takewhile_frame that
\* reads and prints the command's output.
ShowTake ==
    /\ Running /\ Call = "show_command_output" /\ sub = 1
    /\ LET node == vtysh_processes[idx + 1]
       IN  \E arriving \in Arrivals :
               LET r == show_output_loop(chan[node] \o FramesBytes(arriving), STDOUT, <<>>)
               IN  /\ Consumed(arriving, r.rest)
                   /\ chan' = [chan EXCEPT ![node] = r.rest]
                   /\ IF r.status = "blocked"
                      THEN Hang
                      ELSE Continue(Len(vtysh_processes))
    /\ UNCHANGED <<dvars, topology, containers, banner, stack, sock, vtysh_processes, sent,
                   attempts, NETWORK_MAP, subnet_counter, routing_graph, iter_first,
                   synth_started, nm_read, pair>>

\* setup_static_routing up to its loop: NETWORK_MAP.default_factory = None and
\* routing_graph = build_routing_graph(config).
SetupStaticRouting ==
    /\ Running /\ Call = "setup_static_routing" /\ ~synth_started
    /\ synth_started' = TRUE
    /\ routing_graph' = build_routing_graph(topology)
    /\ UNCHANGED <<dvars, topology, containers, banner, stmt, idx, sub, status, error, stack,
                   sock, vtysh_processes, sent, chan, attempts, NETWORK_MAP,
                   subnet_counter, iter_first, nm_read, pair>>

\* What next(iter(coverage_intersection)) may yield for each emitting node.
FirstOf(emits) ==
    {f \in [DOMAIN emits -> UNION {emits[i].shared : i \in DOMAIN emits}] :
        \A i \in DOMAIN emits : f[i] \in emits[i].shared}

\* The same set iterates the same way every time within a run.
IterConsistent(memo, emits, f) ==
    \A i \in DOMAIN emits : \A t \in memo :
        (t.node = emits[i].node /\ t.gateway = emits[i].gateway) => t.where = f[i]

\* setup_static_routing, one element of itertools.product(routing_graph, repeat=2)
RoutePair ==
    /\ Running /\ Call = "setup_static_routing" /\ synth_started
    /\ LET keys == routing_graph.keys
           V == Len(keys)
           from_node == keys[(idx \div V) + 1]
           to_node == keys[(idx % V) + 1]
           path == dijkstra(routing_graph, from_node, to_node)
           this == [from |-> from_node, to |-> to_node, path |-> path,
                    emitted |-> <<>>, done |-> FALSE]
       IN  IF from_node = to_node
           THEN /\ Continue(V * V)
                /\ UNCHANGED <<sent, attempts, iter_first, nm_read, pair>>
           ELSE IF path = <<>>
           THEN /\ Fail("AssertionError")
                /\ pair' = this
                /\ UNCHANGED <<sent, attempts, iter_first, nm_read>>
           ELSE IF NETWORK_MAP[path[Len(path)]] = <<>>
           THEN /\ Fail("KeyError")
                /\ pair' = this
                /\ nm_read' = TRUE
                /\ UNCHANGED <<sent, attempts, iter_first>>
           ELSE LET target_subnet == TargetSubnet(NETWORK_MAP, path)
                    plan == RouteWalk(Tail(Reverse(path)), path[Len(path)], target_subnet,
                                      NETWORK_MAP, <<>>)
                    m == Len(plan.emits)
                IN  \E f \in FirstOf(plan.emits), k \in 0 .. m :
                        LET cmds == [i \in 1 .. m |->
                                        RouteCommand(NETWORK_MAP, target_subnet,
                                                     plan.emits[i], f[i])]
                            r == send_commands(sent, cmds, k)
                            seen == IF k < m THEN k + 1 ELSE m
                        IN  /\ IterConsistent(iter_first, plan.emits, f)
                            /\ iter_first' = iter_first \cup
                                   {[node |-> plan.emits[i].node,
                                     gateway |-> plan.emits[i].gateway,
                                     where |-> f[i]] : i \in 1 .. seen}
                            /\ nm_read' = TRUE
                            /\ sent' = r.log
                            /\ attempts' = attempts + seen
                            /\ pair' = [this EXCEPT !.emitted = SubSeq(cmds, 1, k),
                                                    !.done = ~r.raised /\ plan.error = "none"]
                            /\ IF r.raised THEN Fail("TimeoutError")
                               ELSE IF plan.error # "none" THEN Fail(plan.error)
                               ELSE Continue(V * V)
    /\ UNCHANGED <<dvars, topology, containers, banner, stack, sock, vtysh_processes, chan,
                   NETWORK_MAP, subnet_counter, routing_graph, synth_started>>

\* The with-block of main is left, by its end or by an exception: the
\* ExitStack leaves every context it has entered.
MainExit ==
    /\ status = "raised" \/ (Running /\ Call = "return")
    /\ sock' = ExitStackExit(sock, stack)
    /\ stack' = <<>>
    /\ status' = "ended"
    /\ UNCHANGED <<dvars, topology, containers, banner, stmt, idx, sub, error, vtysh_processes,
                   sent, chan, attempts, NETWORK_MAP, subnet_counter, routing_graph,
                   iter_first, synth_started, nm_read, pair>>

\* A topology file of two routers with one PC each and no link between the
\* routers: PC0:eth1 -- R0:eth1 and PC1:eth1 -- R1:eth1.
TwoIslands ==
    << << Endpoint(Device(0), Eth(1)), Endpoint(Router(0), Eth(1)) >>,
       << Endpoint(Device(1), Eth(1)), Endpoint(Router(1), Eth(1)) >> >>

\* A run of main on a generated topology, the containers listed in the order
\* of the topology's nodes or in the reverse order, or on TwoIslands.
Init ==
    /\ DriverIdle
    /\ \/ \E subnets \in 1 .. MaxRunSubnets :
             /\ topology = create_links(subnets)
             /\ containers \in {create_nodes(subnets), Reverse(create_nodes(subnets))}
       \/ /\ topology = TwoIslands
          /\ containers = LinkNodes(topology, <<>>)
    /\ stmt = 1 /\ idx = 0 /\ sub = 0 /\ status = "running" /\ error = "none"
    /\ stack = <<>>
    /\ sock = [n \in Universe |-> NoSocket]
    /\ vtysh_processes = <<>>
    /\ sent = [n \in Universe |-> <<>>]
    /\ chan = [n \in Universe |-> <<>>]
    /\ attempts = 0
    /\ NETWORK_MAP = [n \in Universe |-> <<>>]
    /\ subnet_counter = 0
    /\ routing_graph = EmptyGraph
    /\ iter_first = {} /\ synth_started = FALSE /\ nm_read = FALSE
    /\ pair = NoPair
    /\ banner = <<>>

Next ==
    \/ CreateVtyshProcess
    \/ SetupRouterLoopback
    \/ SetupRouterSubnet
    \/ SetupPcLink
    \/ CommitConfig
    \/ ShowSend
    \/ ShowTake
    \/ SetupStaticRouting
    \/ RoutePair
    \/ MainExit

Spec == Init /\ [][Next]_vars

\* ----------------------------------------------------------- topologies
\* Topologies written by hand: any list of up to MaxLinks links between two
\* routers and two PCs, link j on the adapters eth<j> of its two nodes.
MaxLinks == 3

GraphNodes == {Router(0), Router(1), Device(0), Device(1)}

GraphLink(ends, j) == << Endpoint(ends[1], Eth(j)), Endpoint(ends[2], Eth(j)) >>

GraphTopologies ==
    {[j \in DOMAIN ends |-> GraphLink(ends[j], j)] :
        ends \in SeqsUpTo(GraphNodes \X GraphNodes, MaxLinks) \ {<<>>}}

\* ------------------------------------------------------------ SpecRoute
\* setup_static_routing alone, entered as main enters it: every session is
\* open and configured, NETWORK_MAP holds what the addressing phases wrote.
MaxSubnets == 3

\* A banner of one STDOUT frame, as every session of a run that has reached
\* setup_static_routing has read.
Greeting == << [stream |-> STDOUT, data |-> << 72 >>] >>

\* The two-router topology with the single link R0:eth1 -- R1:eth1.
ScenarioB == << << Endpoint(Router(0), Eth(1)), Endpoint(Router(1), Eth(1)) >> >>

\* A topology file in which R0 has two PCs and PC1 is also linked to R1:
\* R0:eth1 -- PC0:eth1, R0:eth2 -- PC1:eth1, PC1:eth2 -- R1:eth1,
\* R0:eth3 -- R1:eth2.
TwoHostsOneRouter ==
    << << Endpoint(Router(0), Eth(1)), Endpoint(Device(0), Eth(1)) >>,
       << Endpoint(Router(0), Eth(2)), Endpoint(Device(1), Eth(1)) >>,
       << Endpoint(Device(1), Eth(2)), Endpoint(Router(1), Eth(1)) >>,
       << Endpoint(Router(0), Eth(3)), Endpoint(Router(1), Eth(2)) >> >>

RECURSIVE Flatten(_)
Flatten(ss) == IF ss = <<>> THEN <<>> ELSE Head(ss) \o Flatten(Tail(ss))

\* subnet_counter when setup_router_subnets reaches link i
CounterAt(links, i) == 1 + Cardinality({j \in 1 .. i - 1 : IsRouterLink(links[j])})

\* Every command main sends before it calls setup_static_routing.
CommandsBeforeRouting(links, procs) ==
    Flatten([i \in DOMAIN procs |-> << To(procs[i], CmdConf) >>])
    \o Flatten([i \in DOMAIN procs |->
                   IF IsPC(procs[i]) THEN <<>> ELSE LoopbackCmds(procs[i])])
    \o Flatten([i \in DOMAIN links |->
                   IF IsRouterLink(links[i])
                   THEN RouterSubnetCmds(links[i], CounterAt(links, i)) ELSE <<>>])
    \o Flatten([i \in DOMAIN links |->
                   IF IsPcLink(links[i]) THEN PcLinkCmds(links[i]) ELSE <<>>])
    \o Flatten([i \in DOMAIN procs |-> CommitCmds(procs[i])])
    \o Flatten([i \in DOMAIN procs |-> << To(procs[i], CmdShIntBrief) >>])

RoutingStmt == CHOOSE i \in DOMAIN MainBody : MainBody[i].call = "setup_static_routing"

InitRoute ==
    /\ DriverIdle
    /\ topology \in {create_links(subnets) : subnets \in 1 .. MaxSubnets}
                    \cup {ScenarioB, TwoHostsOneRouter} \cup GraphTopologies
    /\ containers = LinkNodes(topology, <<>>)
    /\ stmt = RoutingStmt /\ idx = 0 /\ sub = 0 /\ status = "running" /\ error = "none"
    /\ stack = containers
    /\ sock = [n \in Universe |-> OpenSocket]
    /\ vtysh_processes = containers
    /\ LET cmds == CommandsBeforeRouting(yield_links(topology), containers)
       IN  /\ sent = send_commands([n \in Universe |-> <<>>], cmds, Len(cmds)).log
           /\ attempts = Len(cmds)
    /\ chan = [n \in Universe |-> <<>>]
    /\ NETWORK_MAP = Addressed([n \in Universe |-> <<>>], topology, containers)
    /\ subnet_counter = CounterAt(yield_links(topology), Len(topology) + 1)
    /\ routing_graph = EmptyGraph
    /\ iter_first = {} /\ synth_started = FALSE /\ nm_read = FALSE
    /\ pair = NoPair
    /\ banner = Greeting

NextRoute == SetupStaticRouting \/ RoutePair

SpecRoute == InitRoute /\ [][NextRoute]_vars

\* ------------------------------------------------------------ SpecGraph
\* dijkstra on the routing graph of any small list of links.
InitGraph ==
    /\ DriverIdle
    /\ topology \in GraphTopologies
    /\ containers = <<>>
    /\ stmt = 0 /\ idx = 0 /\ sub = 0 /\ status = "idle" /\ error = "none"
    /\ stack = <<>> /\ sock = <<>> /\ vtysh_processes = <<>>
    /\ sent = <<>> /\ chan = <<>> /\ attempts = 0
    /\ NETWORK_MAP = <<>> /\ subnet_counter = 0
    /\ routing_graph = build_routing_graph(topology)
    /\ iter_first = {} /\ synth_started = FALSE /\ nm_read = FALSE
    /\ pair = NoPair
    /\ banner = <<>>

\* path = dijkstra(routing_graph, from_node, to_node) for two distinct keys
Resolve ==
    /\ status = "idle" /\ ~pair.done
    /\ \E from_node \in Range(routing_graph.keys), to_node \in Range(routing_graph.keys) :
          /\ from_node # to_node
          /\ pair' = [from |-> from_node, to |-> to_node,
                      path |-> dijkstra(routing_graph, from_node, to_node),
                      emitted |-> <<>>, done |-> TRUE]
    /\ UNCHANGED <<dvars, topology, containers, banner, stmt, idx, sub, status, error, stack,
                   sock, vtysh_processes, sent, chan, attempts, NETWORK_MAP,
                   subnet_counter, routing_graph, iter_first, synth_started, nm_read>>

NextGraph == Resolve

SpecGraph == InitGraph /\ [][NextGraph]_vars

\* ------------------------------------------------------ claims on SpecDriver
\* The number of leading frames of fs whose stream is `wanted`.
RECURSIVE LeadingMatch(_, _)
LeadingMatch(fs, wanted) ==
    IF fs = <<>> \/ Head(fs).stream # wanted THEN 0
    ELSE 1 + LeadingMatch(Tail(fs), wanted)

\* The offset in the byte stream at which frame k + 1 of fs starts.
FrameStart(fs, k) == Len(FramesBytes(SubSeq(fs, 1, k)))

\* C1: when takewhile_frame stops because the next frame does not match, that
\* frame is entirely unread: the channel still starts with its header.
C1_TakeLeavesFrameUnread ==
    (dop = "takewhile" /\ dpc = "done" /\ dres.why = "break")
        => dres.rest = Drop(dstream, FrameStart(dframes, LeadingMatch(dframes, dwanted)))

\* C2: dropwhile_frame discards exactly the leading matching frames; it returns
\* the payload length of the first non-matching frame with that payload unread
\* (only its header consumed), and 0 with the channel drained when every frame
\* matches.
C2_DropWhileResult ==
    (dop = "dropwhile" /\ dpc = "returned")
        => LET k == LeadingMatch(dframes, dwanted)
           IN  IF k < Len(dframes)
               THEN /\ dres.ret = Len(dframes[k + 1].data)
                    /\ dres.rest = Drop(dstream, FrameStart(dframes, k) + HEADER_SIZE)
               ELSE /\ dres.ret = 0
                    /\ dres.rest = <<>>
                    /\ dstream = FramesBytes(dframes)

\* C2 witness: two matching frames were discarded and a non-matching frame
\* with a payload was announced.
C2_Witness ==
    /\ dop = "dropwhile" /\ dpc = "returned"
    /\ LeadingMatch(dframes, dwanted) = 2
    /\ Len(dframes) = 3
    /\ Len(dframes[1].data) > 0
    /\ dres.ret > 0
    /\ Len(dres.rest) = dres.ret

\* C6: no driver operation waits forever: the driver is never inside a read
\* whose bytes the peer, having stopped sending, never delivers.
C6_NoReadBlocksForever == dpc # "blocked"

\* ------------------------------------------------------------ claims on Spec
Sessions == DOMAIN sock

\* The commands written so far, over all sessions.
RECURSIVE TotalSent(_)
TotalSent(nodes) ==
    IF nodes = {} THEN 0
    ELSE LET n == CHOOSE n \in nodes : TRUE
         IN  Len(sent[n]) + TotalSent(nodes \ {n})

\* How many of the first i - 1 commands of a log are of a kind.
Before(log, i, kind) == Cardinality({j \in 1 .. i - 1 : log[j].kind = kind})

IsPrefix(a, b) == Len(a) <= Len(b) /\ SubSeq(b, 1, Len(a)) = a

\* C3: every session opened by create_vtysh_processes has been released exactly
\* once when main has ended, by its end or by an exception, the session whose
\* opening failed included; no session is ever released twice, and none that
\* was not opened.
C3_ReleasedExactlyOnce ==
    /\ \A n \in Sessions :
          /\ sock[n].released <= 1
          /\ sock[n].released = 1 => sock[n].opened
    /\ status = "ended" => \A n \in Sessions : sock[n].opened => sock[n].released = 1

\* main has ended on the banner assertion of the second session: two sessions
\* were opened, one was configured, both are released.
C3_Witness ==
    /\ status = "ended" /\ error = "AssertionError" /\ Len(vtysh_processes) = 1
    /\ Cardinality({n \in Sessions : sock[n].opened}) = 2
    /\ \A n \in Sessions : sock[n].opened => sock[n].released = 1

\* C4, as stated: every "int", "ip addr" and "ip route" command of a session
\* comes after its "conf" and before any "exit" of that session.
C4_NoCommandAfterExit ==
    \A n \in DOMAIN sent : \A i \in DOMAIN sent[n] :
        sent[n][i].kind \in {"int", "ip addr", "ip route"} =>
            /\ Before(sent[n], i, "conf") = 1
            /\ Before(sent[n], i, "exit") = 0

\* C4, amended: every "int" and "ip addr" command of a session comes after its
\* "conf" and before any "exit"; every "ip route" command comes after the
\* "conf", after exactly one "exit", which was sent from an interface ("int"
\* came before it), and so before the second "exit" of the session.
C4_ConfiguringWhenSent ==
    \A n \in DOMAIN sent : \A i \in DOMAIN sent[n] :
        /\ sent[n][i].kind \in {"int", "ip addr"} =>
              /\ Before(sent[n], i, "conf") = 1
              /\ Before(sent[n], i, "exit") = 0
        /\ sent[n][i].kind = "ip route" =>
              /\ Before(sent[n], i, "conf") = 1
              /\ Before(sent[n], i, "exit") = 1
              /\ \E e \in 1 .. i - 1 :
                    /\ sent[n][e].kind = "exit"
                    /\ Before(sent[n], e, "int") > 0

\* A complete run: some session got addresses, then routes, then its second
\* "exit".
C4_Witness ==
    /\ status = "ended" /\ error = "none"
    /\ \E n \in DOMAIN sent : \E i, j \in DOMAIN sent[n] :
          /\ sent[n][i].kind = "ip addr"
          /\ sent[n][j].kind = "ip route"
          /\ Before(sent[n], Len(sent[n]) + 1, "exit") = 2

RouteSent == \E n \in DOMAIN sent : \E i \in DOMAIN sent[n] : sent[n][i].kind = "ip route"

\* The three addressing phases and the first commit are over on every session:
\* every container has its session, NETWORK_MAP holds every address, and every
\* session's log starts with all that main sends to it before the synthesis.
AddressingCommitted ==
    /\ Len(vtysh_processes) = Len(containers)
    /\ LET before == CommandsBeforeRouting(yield_links(topology), vtysh_processes)
           logs == send_commands([n \in Universe |-> <<>>], before, Len(before)).log
       IN  \A n \in Universe : IsPrefix(logs[n], sent[n])

\* C5: no "ip route" command is sent and the synthesis does not read
\* NETWORK_MAP before the loopbacks, the router subnets, the PC links and the
\* first commit are over on every session; from the start of the synthesis on
\* NETWORK_MAP does not change, and it holds what the addressing wrote.
C5_SynthesisAfterAddressing ==
    /\ []((RouteSent \/ nm_read \/ synth_started) =>
             /\ AddressingCommitted
             /\ NETWORK_MAP = Addressed([n \in Universe |-> <<>>], topology, vtysh_processes))
    /\ [][synth_started => NETWORK_MAP' = NETWORK_MAP]_vars

\* A complete run: the synthesis read the map and sent routes.
C5_Witness == status = "ended" /\ error = "none" /\ nm_read /\ RouteSent

\* C7: the send_command that raises TimeoutError writes nothing (of all the
\* calls made, all but this one have written their command); after it no call
\* is made and nothing is written on any session; main ends with every opened
\* session released.
C7_WriteTimeout ==
    /\ [](TotalSent(DOMAIN sent) = attempts - (IF error = "TimeoutError" THEN 1 ELSE 0))
    /\ [][error = "TimeoutError" => sent' = sent /\ attempts' = attempts]_vars
    /\ []((error = "TimeoutError" /\ status = "ended") =>
             \A n \in Sessions : sock[n].opened => sock[n].released = 1)

\* A route command of the synthesis timed out: main has ended, commands were
\* written before, every session is released.
C7_Witness ==
    /\ status = "ended" /\ error = "TimeoutError" /\ synth_started
    /\ TotalSent(DOMAIN sent) > 0
    /\ \A n \in Sessions : sock[n].opened /\ sock[n].released = 1

\* ------------------------------------------------------- claims on SpecGraph
Edge(g, a, b) == \E i \in DOMAIN g.adj[a] : g.adj[a][i].node = b

\* The number of edges of a shortest walk from the frontier to the target, by
\* layers; -1 when no walk reaches it.
RECURSIVE LayerDistance(_, _, _, _, _)
LayerDistance(g, frontier, seen, d, target) ==
    IF target \in frontier THEN d
    ELSE IF frontier = {} THEN -1
    ELSE LET next == {v \in Range(g.keys) \ seen : \E u \in frontier : Edge(g, u, v)}
         IN  LayerDistance(g, next, seen \cup next, d + 1, target)

Distance(g, s, d) == LayerDistance(g, {s}, {s}, 0, d)

\* C8: for a source and a destination of the routing graph, distinct: when the
\* destination is reachable, dijkstra returns a sequence from the source to the
\* destination, every two consecutive nodes joined by an edge, of distance + 1
\* nodes; when it is not, the empty sequence.
C8_ShortestPath ==
    pair.done =>
        LET g == routing_graph
            p == pair.path
            dist == Distance(g, pair.from, pair.to)
        IN  IF dist < 0 THEN p = <<>>
            ELSE /\ Len(p) = dist + 1
                 /\ p[1] = pair.from
                 /\ p[Len(p)] = pair.to
                 /\ \A i \in 1 .. Len(p) - 1 : Edge(g, p[i], p[i + 1])

\* A path of three nodes in a graph with two parallel links (and the routers'
\* self-edges).
C8_Witness ==
    /\ pair.done /\ Len(pair.path) = 3
    /\ \E i, j \in DOMAIN topology :
          /\ i # j
          /\ topology[i][1].node = topology[j][1].node
          /\ topology[i][2].node = topology[j][2].node
          /\ topology[i][1].node # topology[i][2].node

\* ------------------------------------------------------- claims on SpecRoute
\* setup_static_routing has returned.
RoutingDone == status = "running" /\ stmt = RoutingStmt + 1

\* The routes a node's session was sent for a subnet, and the nodes that own
\* an address.
RoutesFor(n, net) == {c \in Range(sent[n]) : c.kind = "ip route" /\ c.net = net}

\* The nodes a route of n hands a packet to: those at the other end of a link
\* on the route's adapter that own the route's gateway address.
Peers(n, adapter) ==
    {link[2].node : link \in {l \in Range(topology) : l[1] = Endpoint(n, adapter)}}
    \cup {link[1].node : link \in {l \in Range(topology) : l[2] = Endpoint(n, adapter)}}

Owns(m, ip) == \E i \in DOMAIN NETWORK_MAP[m] : NETWORK_MAP[m][i].ip = ip

NextHops(n, c) == {m \in Peers(n, c.adapter) : Owns(m, c.gw)}

Attached(n, net) == net \in Keys(NETWORK_MAP[n])

\* From n, within `fuel` steps along the routes for `net`, a node attached to
\* `net` is reached, whatever route is followed, and no node is visited twice.
RECURSIVE Delivers(_, _, _, _)
Delivers(n, net, visited, fuel) ==
    IF Attached(n, net) THEN TRUE
    ELSE /\ fuel > 0
         /\ RoutesFor(n, net) # {}
         /\ \A c \in RoutesFor(n, net) :
               /\ NextHops(n, c) # {}
               /\ \A m \in NextHops(n, c) :
                     /\ m \notin visited
                     /\ Delivers(m, net, visited \cup {m}, fuel - 1)

\* C9: once setup_static_routing has gone through every pair, from every node
\* s the routes for the target subnet of every other node d lead, in fewer than
\* |V| steps and through no node twice, to a node attached to that subnet;
\* every node on the way is attached to it or has a route for it.
C9_RoutesDeliver ==
    RoutingDone =>
        LET V == Range(routing_graph.keys)
        IN  \A s \in V, d \in V :
                s # d => Delivers(s, NETWORK_MAP[d][1].subnet, {s}, Cardinality(V) - 1)

\* The route commands one pair sent to a node.
EmittedTo(n) == {i \in DOMAIN pair.emitted : pair.emitted[i].node = n}

\* C10: for a pair and its path, the synthesis sends one "ip route" command,
\* for the destination's target subnet, to every node of the path but the
\* destination that is not attached to that subnet, and none to any other
\* node; with R0 and R1 joined by one link and no PC, the pair (R0, R1) sends
\* one route, to R0, for the loopback of R1 via R1's address on the link.
C10_OneRoutePerHop ==
    pair.done =>
        LET p == pair.path
            target == TargetSubnet(NETWORK_MAP, p)
            needing == {n \in Range(SubSeq(p, 1, Len(p) - 1)) : ~Attached(n, target)}
        IN  /\ \A n \in Universe :
                  Cardinality(EmittedTo(n)) = IF n \in needing THEN 1 ELSE 0
            /\ \A i \in DOMAIN pair.emitted :
                  /\ pair.emitted[i].cmd.kind = "ip route"
                  /\ pair.emitted[i].cmd.net = target
                  /\ pair.emitted[i].cmd \in Range(sent[pair.emitted[i].node])
            /\ Len(pair.emitted) =
                  (Len(p) - 1) - Cardinality({i \in 1 .. Len(p) - 1 : Attached(p[i], target)})
            /\ (topology = ScenarioB /\ pair.from = Router(0) /\ pair.to = Router(1)) =>
                  pair.emitted = << To(Router(0),
                                       CmdIpRoute(Network(<<10, 10, 10, 2>>, 32),
                                                  <<192, 168, 1, 2>>, Eth(1))) >>

\* A pair whose path has a node attached to the target subnet, which gets no
\* route, and a node that is not, which gets one.
C10_Witness ==
    /\ pair.done /\ Len(pair.path) >= 3
    /\ Len(pair.emitted) >= 1
    /\ Len(pair.emitted) < Len(pair.path) - 1

\* The topology is one that create_links produces.
Generated == \E subnets \in 1 .. MaxSubnets : topology = create_links(subnets)

\* The /32 loopback subnet a node has, or would have, by its number.
LoopbackSubnet(d) == Network(LoopbackIp(d), 32)

\* The /24 subnet of the first link of the topology that joins the PC d to a
\* router.
FirstPcSubnet(d) ==
    LET mine == {i \in DOMAIN topology :
                    IsPcLink(topology[i]) /\ PcEnd(topology[i]).node = d}
        i == CHOOSE i \in mine : \A j \in mine : i <= j
    IN  Network(PcIp(RouterEnd(topology[i]).node), 24)

\* C11, as stated: every route emitted for a pair (s, d) is for the /32
\* loopback subnet of d, be d a router or a PC.
C11_RoutesForLoopback ==
    \A i \in DOMAIN pair.emitted : pair.emitted[i].cmd.net = LoopbackSubnet(pair.to)

\* C11, amended: every route emitted for a pair (s, d) is for the first subnet
\* bound to d: the /32 loopback subnet 10.10.10.<id + 1> when d is a router,
\* the /24 subnet 172.25.<r + 1>.0 of d's first link to a router r when d is a
\* PC, which has no loopback.
C11_RoutesForFirstSubnet ==
    \A i \in DOMAIN pair.emitted :
        pair.emitted[i].cmd.net =
            IF IsRouter(pair.to) THEN LoopbackSubnet(pair.to) ELSE FirstPcSubnet(pair.to)

\* Scenario A: three routers in a ring, a PC on each; the pair (PC0, PC2) has
\* sent its routes, to PC0 and to R0, for 172.25.3.0/24.
C11_Witness ==
    /\ topology = create_links(3)
    /\ pair.done /\ pair.from = Device(0) /\ pair.to = Device(2)
    /\ {pair.emitted[i].node : i \in DOMAIN pair.emitted} = {Device(0), Router(0)}
    /\ \A i \in DOMAIN pair.emitted :
          pair.emitted[i].cmd.net = <<172, 25, 3, 0, 24>>

\* The subnets two nodes both have in NETWORK_MAP, and the links that join them.
Shared(u, v) == Keys(NETWORK_MAP[u]) \cap Keys(NETWORK_MAP[v])

LinksBetween(u, v) ==
    {i \in DOMAIN topology : {topology[i][1].node, topology[i][2].node} = {u, v}}

\* A path has been computed for the pair at hand.
PathComputed == pair.from # None /\ pair.path # <<>>

\* C12, as stated: on a generated topology, two adjacent nodes of a computed
\* path share exactly one subnet of NETWORK_MAP.
C12_ExactlyOneShared ==
    (Generated /\ PathComputed) =>
        \A i \in 1 .. Len(pair.path) - 1 :
            Cardinality(Shared(pair.path[i], pair.path[i + 1])) = 1

\* C12, amended: on a generated topology, two adjacent nodes of a computed
\* path share as many subnets as links join them, which is one, but two for
\* R0 and R1 when they are the only routers; so the intersection of the
\* synthesis is never empty, and no run of it ends on its assertion.
C12_OneSharedPerLink ==
    Generated =>
        /\ error \notin {"AssertionError", "KeyError"}
        /\ PathComputed =>
              \A i \in 1 .. Len(pair.path) - 1 :
                  LET u == pair.path[i]
                      v == pair.path[i + 1]
                  IN  /\ Cardinality(Shared(u, v)) = Cardinality(LinksBetween(u, v))
                      /\ Cardinality(Shared(u, v)) =
                            IF topology = create_links(2) /\ {u, v} = {Router(0), Router(1)}
                            THEN 2 ELSE 1

\* With two routers, the pair (PC0, R1) went over the two links between R0 and
\* R1 and has sent its routes.
C12_Witness ==
    /\ topology = create_links(2)
    /\ pair.done /\ pair.path = << Device(0), Router(0), Router(1) >>
    /\ Cardinality(Shared(Router(0), Router(1))) = 2
    /\ Len(pair.emitted) = 2

\* ---------------------------------------------------- claims on Spec (2)
\* The index of the first STDOUT frame of fs when only STDERR frames precede it.
BannerStdout(fs) ==
    {k \in DOMAIN fs : fs[k].stream = STDOUT /\ \A j \in 1 .. k - 1 : fs[j].stream = STDERR}

\* The session has read the banner fs through its first STDOUT frame, payload
\* included, and `rest` is what it has not read.
BannerConsumed(fs, rest) ==
    \E k \in BannerStdout(fs) : rest = FramesBytes(SubSeq(fs, k + 1, Len(fs)))

FirstSend(n) == sent[n] = <<>> /\ sent'[n] # <<>>

\* C13: the first command of a session is sent only once the leading STDERR
\* frames of its banner are discarded and the first STDOUT frame is read in
\* full; when the banner holds no STDOUT frame the run aborts on the
\* assertion and the session is sent nothing.
C13_BannerBeforeFirstSend ==
    /\ [][\A n \in DOMAIN sent : FirstSend(n) => BannerConsumed(banner', chan'[n])]_vars
    /\ []((Call = "create_vtysh_processes" /\ ~Running /\ BannerStdout(banner) = {})
             => /\ status \in {"raised", "ended"}
                /\ error = "AssertionError"
                /\ sent[containers[idx + 1]] = <<>>)

\* A session has been sent "conf" after a banner of a STDERR frame with a
\* payload and a STDOUT frame.
C13_Witness ==
    /\ Len(banner) = 2
    /\ banner[1].stream = STDERR /\ banner[1].data # <<>>
    /\ banner[2].stream = STDOUT
    /\ vtysh_processes # <<>>
    /\ sent[vtysh_processes[Len(vtysh_processes)]] = << CmdConf >>
    /\ chan[vtysh_processes[Len(vtysh_processes)]] = <<>>

\* The resolver has returned an empty path for the pair handled last.
Unreachable == pair.from # None /\ pair.path = <<>>

Exits(n) == Cardinality({i \in DOMAIN sent[n] : sent[n][i].kind = "exit"})

\* C14: when dijkstra returns an empty path for a pair, the run aborts at that
\* pair on the assertion: the step that meets the pair and every later step
\* send nothing, main never leaves setup_static_routing for the second commit
\* or the routing-table display, and once main has ended every opened session
\* is released.
C14_UnreachableAborts ==
    /\ [][Unreachable' => sent' = sent]_vars
    /\ [](Unreachable =>
             /\ status \in {"raised", "ended"}
             /\ error = "AssertionError"
             /\ stmt = RoutingStmt
             /\ \A n \in Sessions :
                   /\ Exits(n) <= 1
                   /\ \A i \in DOMAIN sent[n] : sent[n][i] # CmdShIpRoute
             /\ status = "ended" =>
                   \A n \in Sessions : sock[n].opened => sock[n].released = 1)

\* On TwoIslands the pair (PC0, R0) got its route, the pair (PC0, PC1) has no
\* path, and main has ended with the four sessions released.
C14_Witness ==
    /\ topology = TwoIslands
    /\ Unreachable /\ pair.from = Device(0) /\ pair.to = Device(1)
    /\ status = "ended"
    /\ \E i \in DOMAIN sent[Device(0)] : sent[Device(0)][i].kind = "ip route"
    /\ Cardinality({n \in Sessions : sock[n].opened /\ sock[n].released = 1}) = 4

\* ------------------------------------------------ claims on SpecGraph (2)
\* The entries (n, "lo") of routing_graph[n].
LoSelfEdges(n) ==
    {i \in DOMAIN routing_graph.adj[n] : routing_graph.adj[n][i] = RouteLink(n, Lo)}

\* C15: in the graph build_routing_graph returns, every router has exactly one
\* self-edge (n, "lo") and no PC has one.
C15_SelfEdgeIffRouter ==
    /\ DOMAIN routing_graph.adj = Range(routing_graph.keys)
    /\ \A n \in Range(routing_graph.keys) :
          Cardinality(LoSelfEdges(n)) = IF IsRouter(n) THEN 1 ELSE 0

\* The graph of a topology with a router linked to itself and to a PC, and a
\* PC linked to itself: R0 has its (R0, "lo") after three other entries.
C15_Witness ==
    /\ Range(routing_graph.keys) = {Router(0), Device(0), Device(1)}
    /\ Len(routing_graph.adj[Router(0)]) = 4
    /\ routing_graph.adj[Router(0)][4] = RouteLink(Router(0), Lo)
    /\ RouteLink(Router(0), Eth(1)) \in Range(routing_graph.adj[Router(0)])
    /\ RouteLink(Device(1), Eth(3)) \in Range(routing_graph.adj[Device(1)])
    /\ pair.done

\* ---------------------------------------------------- claims on Spec (3)
\* C16: every link of a generated topology has two endpoints, on two distinct
\* nodes.
C16_LinksJoinDistinctNodes ==
    Generated =>
        \A i \in DOMAIN topology :
            /\ Len(topology[i]) = 2
            /\ topology[i][1].node # topology[i][2].node

\* The session whose channel the next step of main reads a frame header from.
ReadsNext(n) ==
    /\ Running
    /\ \/ Call = "create_vtysh_processes" /\ containers[idx + 1] = n
       \/ Call = "show_command_output" /\ vtysh_processes[idx + 1] = n

\* C17: every frame-header read of a session starts at a frame boundary.
\* Frames arrive whole and every operation reads into the last frame that has
\* arrived, so the bytes a session has not read are the rest of a frame whose
\* header it has read: there are none when an operation starts reading.
C17_HeaderReadsAtBoundary == \A n \in DOMAIN chan : ReadsNext(n) => chan[n] = <<>>

\* ------------------------------------------------ claims on SpecRoute (2)
\* What NETWORK_MAP[n] binds to the subnet net.
Bound(n, net) == NETWORK_MAP[n][DictGet(NETWORK_MAP[n], net)]

\* The positions of n on the path of the pair handled last, the last one
\* excluded.
HopsOf(n) == {j \in 1 .. Len(pair.path) - 1 : pair.path[j] = n}

\* C18: every route a pair emits at a node n has as gateway the address of
\* n's immediate successor on the path on a subnet bound to both, and as
\* adapter the one n has on that subnet, whether the successor got a route of
\* its own or not.
C18_GatewayIsSuccessor ==
    \A i \in DOMAIN pair.emitted :
        LET n == pair.emitted[i].node
            c == pair.emitted[i].cmd
        IN  /\ Cardinality(HopsOf(n)) = 1
            /\ \A j \in HopsOf(n) :
                  \E net \in Shared(n, pair.path[j + 1]) :
                      /\ c.gw = Bound(pair.path[j + 1], net).ip
                      /\ c.adapter = Bound(n, net).adapter

\* With three routers, the pair (R1, PC0) has the path R1, R0, PC0: R0 is
\* attached to PC0's subnet and gets no route, R1 gets one through R0.
C18_Witness ==
    /\ topology = create_links(3)
    /\ pair.done
    /\ pair.path = << Router(1), Router(0), Device(0) >>
    /\ EmittedTo(Router(0)) = {}
    /\ Len(pair.emitted) = 1
    /\ pair.emitted[1].node = Router(1)
    /\ pair.emitted[1].cmd.gw = <<192, 168, 1, 1>>
    /\ pair.emitted[1].cmd.adapter = Eth(1)

\* The "ip route" commands sent to n so far.
RoutesOf(n) == {c \in Range(sent[n]) : c.kind = "ip route"}

\* C19: two "ip route" commands sent to one node for one destination subnet,
\* by whatever pairs, name the same gateway and the same adapter.
C19_NoConflictingNextHops ==
    \A n \in DOMAIN sent : \A c1 \in RoutesOf(n), c2 \in RoutesOf(n) :
        c1.net = c2.net => (c1.gw = c2.gw /\ c1.adapter = c2.adapter)
====
